---------------------------- MODULE Spec2Model ----------------------------
(***************************************************************************)
(* Model of prefect_planetary_computer: the PlanetaryComputerCredentials   *)
(* block (credentials.py), the gateway classes (gateway.py) and the task   *)
(* runner (task_runners.py), with the calls they make into                 *)
(* planetary_computer, pystac_client, dask_gateway and prefect_dask.       *)
(*                                                                         *)
(* Python values.  An Optional value is a set: None is {} and a present    *)
(* value v is {v}.  A dict is a function from its keys (strings) to its    *)
(* values.  A SecretStr is modelled by the plaintext it wraps.             *)
(***************************************************************************)
EXTENDS Integers, Sequences, FiniteSets, TLC

VARIABLES
    creds,      \* the PlanetaryComputerCredentials objects: id -> fields
    activeKey,  \* planetary_computer's process-wide subscription key
    input,      \* the arguments drawn for the one call of SpecCluster
    last,       \* the last method call: arguments, exception, return value
    ext,        \* the library calls made by the last method call, in order
    heap,       \* SpecRunners: the caller's dict and the task runner objects
    threads     \* SpecThreads: where each thread is in get_stac_catalog

vars == <<creds, activeKey, input, last, ext, heap, threads>>

-----------------------------------------------------------------------------
(* Bounds of the model *)

\* largest number of entries of a caller-supplied **kwargs / dict argument
MaxKwargs == 2

\* largest number of task runner objects built in one behaviour of SpecRunners
MaxRunners == 3

-----------------------------------------------------------------------------
(* Python values *)

None == {}
Some(v) == {v}
Val(o) == CHOOSE v \in o : TRUE
Optional(S) == {None} \cup {Some(v) : v \in S}

EmptyDict == [k \in {} |-> ""]

\* dict.update(e) applied to d / {**d, **e}
Update(d, e) ==
    [k \in (DOMAIN d) \cup (DOMAIN e) |-> IF k \in DOMAIN e THEN e[k] ELSE d[k]]

\* all dicts with at most n keys out of keys, the value of key k being valueOf[k]
Dicts(keys, valueOf, n) ==
    {[k \in D |-> valueOf[k]] : D \in {D \in SUBSET keys : Cardinality(D) <= n}}

-----------------------------------------------------------------------------
(* constants.py *)

CATALOG_URL == "https://planetarycomputer.microsoft.com/api/stac/v1/"
GATEWAY_ADDRESS ==
    "https://pccompute.westeurope.cloudapp.azure.com/compute/services/dask-gateway"
GATEWAY_PROXY_ADDRESS == "gateway://pccompute-dask.westeurope.cloudapp.azure.com:80"

-----------------------------------------------------------------------------
(* The credentials record *)

RecordIds == {"r1", "r2"}
Keys == {"", "k1", "k2"}
Tokens == {"t1", "t2"}

\* the two Optional[SecretStr] fields of the block, both defaulting to None
PlanetaryComputerCredentials ==
    [subscription_key : Optional(Keys), hub_api_token : Optional(Tokens)]

\* bool(secret) of an Optional[SecretStr]: None is false, and a SecretStr is
\* as true as its length (SecretStr defines __len__), so SecretStr("") is false
SecretTruth(s) == s # None /\ Val(s) # ""

\* a == b on two Optional[SecretStr]: SecretStr.__eq__ compares the plaintexts
\* of two SecretStr and is false against anything else; None == None is true
SecretEq(a, b) ==
    IF a = None THEN b = None
    ELSE b # None /\ Val(a) = Val(b)

JupyterHubAuth(api_token) == [cls |-> "JupyterHubAuth", api_token |-> api_token]

-----------------------------------------------------------------------------
(* Results of a method call *)

NoReturn == [cls |-> "NoReturn"]
NoArgs == [none |-> TRUE]
NoCall == [op |-> "none", self |-> "none", rec |-> NoArgs, args |-> NoArgs,
           exc |-> "none", msg |-> "", ret |-> NoReturn, arg |-> None]
NoInput == [op |-> "none"]
NoHeap == [none |-> TRUE]
NoThreads == [none |-> TRUE]

TokenMissingMsg == "JupyterHub API Token hasn't been provided."

\* the outcome of a method body: exception raised (or "none"), its message,
\* the value returned, the library calls made, the active key afterwards
\* and the caller's mutable dict argument as the call leaves it (None: none given)
Raise(exc, msg, calls, key) ==
    [exc |-> exc, msg |-> msg, ret |-> NoReturn, ext |-> calls, key |-> key,
     arg |-> None]
Return(ret, calls, key) ==
    [exc |-> "none", msg |-> "", ret |-> ret, ext |-> calls, key |-> key,
     arg |-> None]

\* one library call: the function, its arguments by parameter name, and the
\* process-wide subscription key at the moment the call is made
LibCall(fn, kw, key) == [fn |-> fn, kw |-> kw, key |-> key]

\* f(v0, k1=v1, ..., **kwargs): Python raises TypeError ("got multiple values
\* for (keyword) argument") when kwargs repeats an argument the call site passes
RepeatedArgumentMsg == "got multiple values for argument"
Collides(fixed, kwargs) == (DOMAIN fixed) \cap (DOMAIN kwargs) # {}

-----------------------------------------------------------------------------
(* PlanetaryComputerCredentials.__eq__ *)

Bool(b) == [cls |-> "bool", v |-> b]
NoneAttributeMsg == "'NoneType' object has no attribute 'get_secret_value'"

\* the values a record is compared with: a credentials object, a str, None
OtherValues ==
    [t : {"PlanetaryComputerCredentials"}, v : RecordIds]
        \cup {[t |-> "str", v |-> "test-str"], [t |-> "NoneType", v |-> "None"]}

IsCredentials(other) == other.t = "PlanetaryComputerCredentials"

\* self == other.  `and` evaluates its right operand, and with it the two
\* get_secret_value() calls, only when the subscription keys are equal.
Eq(self, other) ==
    IF ~IsCredentials(other)
    THEN Return(Bool(FALSE), <<>>, activeKey)
    ELSE LET o == creds[other.v] IN
         IF ~SecretEq(self.subscription_key, o.subscription_key)
         THEN Return(Bool(FALSE), <<>>, activeKey)
         ELSE IF self.hub_api_token = None \/ o.hub_api_token = None
         THEN Raise("AttributeError", NoneAttributeMsg, <<>>, activeKey)
         ELSE Return(Bool(Val(self.hub_api_token) = Val(o.hub_api_token)),
                     <<>>, activeKey)

-----------------------------------------------------------------------------
(* PlanetaryComputerCredentials.get_stac_catalog *)

SignInplace == Some("planetary_computer.sign_inplace")

\* the default of the sign_inplace parameter
SignInplaceDefault == TRUE

\* keyword arguments a caller may put in pystac_kwargs, with their values
PystacKeys == {"url", "modifier", "headers"}
PystacValue ==
    [k \in PystacKeys |->
        CASE k = "url" -> "https://caller.example/stac"
          [] k = "modifier" -> Some("caller_modifier")
          [] k = "headers" -> "h"]
PystacKwargs == Dicts(PystacKeys, PystacValue, MaxKwargs)

\* variants: the flag is ignored; the flag is inverted
ModifierAlways(sign_inplace) == SignInplace
ModifierInverted(sign_inplace) == IF sign_inplace THEN None ELSE SignInplace

\* the modifier passed to Client.open
Modifier(sign_inplace) == IF sign_inplace THEN SignInplace ELSE None

\* the body of get_stac_catalog, run with the process-wide key being key0
get_stac_catalog(self, sign_inplace, pystac_kwargs, key0) ==
    LET install == SecretTruth(self.subscription_key)
        key1 == IF install THEN self.subscription_key ELSE key0
        set  == IF install
                THEN <<LibCall("planetary_computer.set_subscription_key",
                               [key |-> Val(self.subscription_key)], key0)>>
                ELSE <<>>
        fixed == [url |-> CATALOG_URL, modifier |-> Modifier(sign_inplace)]
    IN  IF Collides(fixed, pystac_kwargs)
        THEN Raise("TypeError", RepeatedArgumentMsg, set, key1)
        ELSE LET kw == Update(fixed, pystac_kwargs) IN
             Return([cls |-> "pystac_client.Client", url |-> kw["url"],
                     modifier |-> kw["modifier"]],
                    set \o <<LibCall("pystac_client.Client.open", kw, key1)>>,
                    key1)

-----------------------------------------------------------------------------
(* PlanetaryComputerCredentials.get_gateway *)

\* keyword arguments a caller may put in gateway_kwargs or in the kwargs of a
\* cluster, with their values
GatewayKeys == {"address", "proxy_address", "auth", "asynchronous"}
GatewayValue ==
    [k \in GatewayKeys |->
        CASE k = "address" -> "https://caller.example/gateway"
          [] k = "proxy_address" -> "gateway://caller.example:80"
          [] k = "auth" -> JupyterHubAuth("caller-token")
          [] k = "asynchronous" -> "True"]
GatewayKwargs == Dicts(GatewayKeys, GatewayValue, MaxKwargs)

\* variant: the guard looks at the other secret
TokenMissingWrongField(self) == self.subscription_key = None

\* the guard of get_gateway: the token was not provided
TokenMissing(self) == self.hub_api_token = None

\* variant: the two addresses are swapped
GatewayFixedSwapped(api_token) ==
    [address |-> GATEWAY_PROXY_ADDRESS, proxy_address |-> GATEWAY_ADDRESS,
     auth |-> JupyterHubAuth(api_token)]

\* address, proxy_address and auth as every gateway call site passes them
GatewayFixed(api_token) ==
    [address |-> GATEWAY_ADDRESS, proxy_address |-> GATEWAY_PROXY_ADDRESS,
     auth |-> JupyterHubAuth(api_token)]

\* the guard comes first; past it, get_secret_value() is called on the token
\* while the arguments of Gateway are evaluated (AttributeError on None)
get_gateway(self, gateway_kwargs, key0) ==
    IF TokenMissing(self)
    THEN Raise("ValueError", TokenMissingMsg, <<>>, key0)
    ELSE IF self.hub_api_token = None
    THEN Raise("AttributeError", NoneAttributeMsg, <<>>, key0)
    ELSE LET fixed == GatewayFixed(Val(self.hub_api_token)) IN
         IF Collides(fixed, gateway_kwargs)
         THEN Raise("TypeError", RepeatedArgumentMsg, <<>>, key0)
         ELSE LET kw == Update(fixed, gateway_kwargs) IN
              Return([cls |-> "dask_gateway.Gateway", address |-> kw["address"],
                      proxy_address |-> kw["proxy_address"], auth |-> kw["auth"]],
                     <<LibCall("dask_gateway.Gateway", kw, key0)>>, key0)

-----------------------------------------------------------------------------
(* PlanetaryComputerCredentials._get_cluster_options_dict *)

OptionKeys == {"worker_cores", "worker_memory", "image", "gpu", "environment"}

\* the values of the five named cluster options
NamedArgs ==
    [worker_cores : Optional({0, 2}),
     worker_memory : Optional({8}),
     image : Optional({"pangeo/pangeo-notebook:latest"}),
     gpu : Optional(BOOLEAN),
     environment : Optional({EmptyDict,
                             [GDAL_DISABLE_READDIR_ON_OPEN |-> "EMPTY_DIR"]})]

\* the defaults of the five named parameters in the three signatures
Defaults ==
    [worker_cores |-> None, worker_memory |-> None, image |-> None,
     gpu |-> Some(FALSE), environment |-> None]

\* cluster_options[k] = v
SetItem(d, k, v) == Update(d, [x \in {k} |-> v])

\* variant: the documented server default of worker_memory is filled in locally
get_cluster_options_dict_local_defaults(a) ==
    LET present == {k \in OptionKeys : a[k] # None} IN
    [k \in present \cup {"worker_memory"} |->
        IF k \in present THEN Val(a[k]) ELSE 8]

\* variant: gpu is tested for truth instead of against None
get_cluster_options_dict_truthy_gpu(a) ==
    LET present == {k \in OptionKeys : a[k] # None /\ (k = "gpu" => Val(a[k]))} IN
    [k \in present |-> Val(a[k])]

get_cluster_options_dict(a) ==
    LET o0 == EmptyDict
        o1 == IF a.worker_cores # None
              THEN SetItem(o0, "worker_cores", Val(a.worker_cores)) ELSE o0
        o2 == IF a.worker_memory # None
              THEN SetItem(o1, "worker_memory", Val(a.worker_memory)) ELSE o1
        o3 == IF a.image # None
              THEN SetItem(o2, "image", Val(a.image)) ELSE o2
        o4 == IF a.gpu # None
              THEN SetItem(o3, "gpu", Val(a.gpu)) ELSE o3
        o5 == IF a.environment # None
              THEN SetItem(o4, "environment", Val(a.environment)) ELSE o4
    IN  o5

-----------------------------------------------------------------------------
(* PlanetaryComputerCredentials.new_gateway_cluster *)

\* gateway_cluster_kwargs holds the keywords that are none of the five named
\* parameters; the options are merged into it, then the cluster is built
new_gateway_cluster(self, a, gateway_cluster_kwargs, key0) ==
    LET kwargs == Update(gateway_cluster_kwargs, get_cluster_options_dict(a)) IN
    IF self.hub_api_token = None
    THEN Raise("AttributeError", NoneAttributeMsg, <<>>, key0)
    ELSE LET fixed == GatewayFixed(Val(self.hub_api_token)) IN
         IF Collides(fixed, kwargs)
         THEN Raise("TypeError", RepeatedArgumentMsg, <<>>, key0)
         ELSE LET kw == Update(fixed, kwargs) IN
              Return([cls |-> "dask_gateway.GatewayCluster", kw |-> kw],
                     <<LibCall("dask_gateway.GatewayCluster", kw, key0)>>,
                     key0)

-----------------------------------------------------------------------------
(* PlanetaryComputerCredentials.get_dask_task_runner *)

\* entries a caller may put in the cluster_kwargs dict, with their values
RunnerKeys == {"address", "proxy_address", "auth", "gpu", "image",
               "shutdown_on_close"}
RunnerValue ==
    [k \in RunnerKeys |->
        CASE k = "address" -> "https://caller.example/gateway"
          [] k = "proxy_address" -> "gateway://caller.example:80"
          [] k = "auth" -> JupyterHubAuth("caller-token")
          [] k = "gpu" -> TRUE
          [] k = "image" -> "caller/image:1"
          [] k = "shutdown_on_close" -> "False"]
ClusterKwargs == Optional(Dicts(RunnerKeys, RunnerValue, MaxKwargs))
AdaptKwargs == Optional({[maximum |-> "10"]})
ClientKwargs == Optional({[timeout |-> "30"]})

\* variant: the caller's entries are written over the fixed ones
ForceGatewayCallerWins(cluster_kwargs, api_token) ==
    Update(GatewayFixed(api_token), cluster_kwargs)

\* cluster_kwargs.update({"address": ..., "proxy_address": ..., "auth": ...})
ForceGateway(cluster_kwargs, api_token) ==
    Update(cluster_kwargs, GatewayFixed(api_token))

\* cluster_kwargs is the caller's dict itself (or a new one for None); both
\* update() calls change it in place, the first after its argument, and with
\* it get_secret_value(), has been evaluated
get_dask_task_runner(self, a, cluster_kwargs, adapt_kwargs, client_kwargs, key0) ==
    LET ck0 == IF cluster_kwargs = None THEN EmptyDict ELSE Val(cluster_kwargs) IN
    IF self.hub_api_token = None
    THEN [Raise("AttributeError", NoneAttributeMsg, <<>>, key0)
            EXCEPT !.arg = cluster_kwargs]
    ELSE LET ck1 == ForceGateway(ck0, Val(self.hub_api_token))
             ck2 == Update(ck1, get_cluster_options_dict(a))
             kw == [cluster_class |-> "dask_gateway.GatewayCluster",
                    cluster_kwargs |-> ck2,
                    adapt_kwargs |-> adapt_kwargs,
                    client_kwargs |-> client_kwargs]
         IN  [Return([cls |-> "prefect_dask.DaskTaskRunner", kw |-> kw],
                     <<LibCall("prefect_dask.DaskTaskRunner", kw, key0)>>,
                     key0)
                EXCEPT !.arg = IF cluster_kwargs = None THEN None ELSE Some(ck2)]

-----------------------------------------------------------------------------
(* gateway.py: PlanetaryComputerGateway.__init__ *)

NoGatewayTokenMsg == "No Planetary Computer Hub API token provided."
AddressSetMsg == "The 'address' kwarg is already set up by default."
ProxyAddressSetMsg == "The 'proxy_address' kwarg is already set up by default."

\* the values a caller supplies for address or proxy_address: the empty
\* string and a non-empty one
SuppliedAddresses == {"", "https://caller.example/gateway"}

\* the keyword arguments of PlanetaryComputerGateway: address and
\* proxy_address with each supplied value, next to auth and asynchronous
PcGatewayKwargs ==
    {Update(b, s) :
        <<b, s>> \in
            {p \in Dicts({"auth", "asynchronous"}, GatewayValue, MaxKwargs)
                   \X UNION {[D -> SuppliedAddresses] :
                                D \in SUBSET {"address", "proxy_address"}} :
                Cardinality(DOMAIN p[1]) + Cardinality(DOMAIN p[2]) <= MaxKwargs}}

\* bool(gateway_kwargs.get(k, None)): the entry is there and is not empty
GetTruth(kwargs, k) == k \in DOMAIN kwargs /\ kwargs[k] # ""

\* the three guards in their order, then the arguments of Gateway.__init__
PlanetaryComputerGateway(hub_api_token, gateway_kwargs, key0) ==
    IF hub_api_token = None
    THEN Raise("ValueError", NoGatewayTokenMsg, <<>>, key0)
    ELSE IF GetTruth(gateway_kwargs, "address")
    THEN Raise("ValueError", AddressSetMsg, <<>>, key0)
    ELSE IF GetTruth(gateway_kwargs, "proxy_address")
    THEN Raise("ValueError", ProxyAddressSetMsg, <<>>, key0)
    ELSE LET fixed == GatewayFixed(Val(hub_api_token)) IN
         IF Collides(fixed, gateway_kwargs)
         THEN Raise("TypeError", RepeatedArgumentMsg, <<>>, key0)
         ELSE LET kw == Update(fixed, gateway_kwargs) IN
              Return([cls |-> "PlanetaryComputerGateway", address |-> kw["address"],
                      proxy_address |-> kw["proxy_address"], auth |-> kw["auth"]],
                     <<LibCall("dask_gateway.Gateway.__init__", kw, key0)>>, key0)

-----------------------------------------------------------------------------
(* gateway.py: PlanetaryComputerCluster.__init__ *)

\* variant: gpu is tested for truth instead of against None
PlanetaryComputerCluster_truthy_gpu(hub_api_token, a, gateway_cluster_kwargs, key0) ==
    LET present == {k \in OptionKeys : a[k] # None /\ (k = "gpu" => Val(a[k]))}
        kwargs == Update(gateway_cluster_kwargs, [k \in present |-> Val(a[k])])
        fixed == GatewayFixed(hub_api_token)
    IN  IF Collides(fixed, kwargs)
        THEN Raise("TypeError", RepeatedArgumentMsg, <<>>, key0)
        ELSE LET kw == Update(fixed, kwargs) IN
             Return([cls |-> "PlanetaryComputerCluster", kw |-> kw],
                    <<LibCall("dask_gateway.GatewayCluster.__init__", kw, key0)>>,
                    key0)

\* hub_api_token is a str; each named option that is not None is set into
\* gateway_cluster_kwargs, which is then passed on next to the fixed three
PlanetaryComputerCluster(hub_api_token, a, gateway_cluster_kwargs, key0) ==
    LET k0 == gateway_cluster_kwargs
        k1 == IF a.worker_cores # None
              THEN SetItem(k0, "worker_cores", Val(a.worker_cores)) ELSE k0
        k2 == IF a.worker_memory # None
              THEN SetItem(k1, "worker_memory", Val(a.worker_memory)) ELSE k1
        k3 == IF a.image # None
              THEN SetItem(k2, "image", Val(a.image)) ELSE k2
        k4 == IF a.gpu # None
              THEN SetItem(k3, "gpu", Val(a.gpu)) ELSE k3
        k5 == IF a.environment # None
              THEN SetItem(k4, "environment", Val(a.environment)) ELSE k4
        fixed == GatewayFixed(hub_api_token)
    IN  IF Collides(fixed, k5)
        THEN Raise("TypeError", RepeatedArgumentMsg, <<>>, key0)
        ELSE LET kw == Update(fixed, k5) IN
             Return([cls |-> "PlanetaryComputerCluster", kw |-> kw],
                    <<LibCall("dask_gateway.GatewayCluster.__init__", kw, key0)>>,
                    key0)

-----------------------------------------------------------------------------
(* task_runners.py: PlanetaryComputerTaskRunner *)

\* prefect_dask's DaskTaskRunner.__init__ keeps a copy of each kwargs dict
\* ({} for None or an empty one) and defaults client_kwargs["set_as_default"]
OrEmpty(o) == IF o = None THEN EmptyDict ELSE Val(o)
DaskTaskRunnerAttrs(kw) ==
    [cluster_kwargs |-> kw.cluster_kwargs,
     adapt_kwargs |-> OrEmpty(kw.adapt_kwargs),
     client_kwargs |-> Update([set_as_default |-> "False"],
                              OrEmpty(kw.client_kwargs))]

\* __init__: get_secret_value() is called on the token before the token is
\* tested (AttributeError on None; the str it returns is never None, so the
\* ValueError of the test cannot be raised); cluster_kwargs is the caller's
\* dict itself (or a new one for None) and update() changes it in place
PlanetaryComputerTaskRunner(credentials, cluster_kwargs, adapt_kwargs, client_kwargs, key0) ==
    IF credentials.hub_api_token = None
    THEN [Raise("AttributeError", NoneAttributeMsg, <<>>, key0)
            EXCEPT !.arg = cluster_kwargs]
    ELSE LET hub_api_token == Val(credentials.hub_api_token)
             ck0 == OrEmpty(cluster_kwargs)
             ck1 == ForceGateway(ck0, hub_api_token)
             kw == [cluster_class |-> "dask_gateway.GatewayCluster",
                    cluster_kwargs |-> ck1,
                    adapt_kwargs |-> adapt_kwargs,
                    client_kwargs |-> client_kwargs]
         IN  [Return([cls |-> "PlanetaryComputerTaskRunner",
                      credentials |-> credentials,
                      hub_api_token |-> hub_api_token,
                      kw |-> kw],
                     <<LibCall("prefect_dask.DaskTaskRunner.__init__", kw, key0)>>,
                     key0)
                EXCEPT !.arg = IF cluster_kwargs = None THEN None ELSE Some(ck1)]

-----------------------------------------------------------------------------
(* The program: a single thread calling the methods of the records *)

\* the record kept of a call of method op on record r with arguments args
CallRecord(op, r, args, out) ==
    [op |-> op, self |-> r, rec |-> creds[r], args |-> args,
     exc |-> out.exc, msg |-> out.msg, ret |-> out.ret, arg |-> out.arg]

\* variant: the token is consumed by the call
FieldsAfterCallTokenConsumed(self) == [self EXCEPT !.hub_api_token = None]

\* the two fields of a record as a method call leaves them: every method
\* body reads them (get_secret_value(), truth, ==) and none assigns them
FieldsAfterCall(self) == self

\* the arguments of the two cluster methods in a sequence of calls
SessionNamedArgs == {Defaults, [Defaults EXCEPT !.worker_cores = Some(2)]}
SessionGatewayKwargs == {EmptyDict, [address |-> GatewayValue["address"]]}
SessionClusterKwargs == {None, Some([image |-> RunnerValue["image"]])}

CallEq ==
    \E r \in RecordIds, other \in OtherValues :
        LET out == Eq(creds[r], other) IN
        /\ last' = CallRecord("__eq__", r, [other |-> other], out)
        /\ ext' = out.ext
        /\ activeKey' = out.key
        /\ creds' = [creds EXCEPT ![r] = FieldsAfterCall(creds[r])]
        /\ UNCHANGED <<input, heap, threads>>

CallGetStacCatalog ==
    \E r \in RecordIds, sign_inplace \in BOOLEAN, pystac_kwargs \in PystacKwargs :
        LET out == get_stac_catalog(creds[r], sign_inplace, pystac_kwargs, activeKey)
        IN  /\ last' = CallRecord("get_stac_catalog", r,
                                  [sign_inplace |-> sign_inplace,
                                   pystac_kwargs |-> pystac_kwargs], out)
            /\ ext' = out.ext
            /\ activeKey' = out.key
            /\ creds' = [creds EXCEPT ![r] = FieldsAfterCall(creds[r])]
            /\ UNCHANGED <<input, heap, threads>>

CallGetGateway ==
    \E r \in RecordIds, gateway_kwargs \in GatewayKwargs :
        LET out == get_gateway(creds[r], gateway_kwargs, activeKey) IN
        /\ last' = CallRecord("get_gateway", r,
                              [gateway_kwargs |-> gateway_kwargs], out)
        /\ ext' = out.ext
        /\ activeKey' = out.key
        /\ creds' = [creds EXCEPT ![r] = FieldsAfterCall(creds[r])]
        /\ UNCHANGED <<input, heap, threads>>

CallNewGatewayCluster ==
    \E r \in RecordIds, a \in SessionNamedArgs,
       gateway_cluster_kwargs \in SessionGatewayKwargs :
        LET out == new_gateway_cluster(creds[r], a, gateway_cluster_kwargs,
                                       activeKey)
        IN  /\ last' = CallRecord("new_gateway_cluster", r,
                                  [a |-> a, gateway_cluster_kwargs |->
                                                gateway_cluster_kwargs], out)
            /\ ext' = out.ext
            /\ activeKey' = out.key
            /\ creds' = [creds EXCEPT ![r] = FieldsAfterCall(creds[r])]
            /\ UNCHANGED <<input, heap, threads>>

CallGetDaskTaskRunner ==
    \E r \in RecordIds, a \in SessionNamedArgs,
       cluster_kwargs \in SessionClusterKwargs :
        LET out == get_dask_task_runner(creds[r], a, cluster_kwargs, None, None,
                                        activeKey)
        IN  /\ last' = CallRecord("get_dask_task_runner", r,
                                  [a |-> a, cluster_kwargs |-> cluster_kwargs],
                                  out)
            /\ ext' = out.ext
            /\ activeKey' = out.key
            /\ creds' = [creds EXCEPT ![r] = FieldsAfterCall(creds[r])]
            /\ UNCHANGED <<input, heap, threads>>

Init ==
    /\ creds \in [RecordIds -> PlanetaryComputerCredentials]
    /\ activeKey = None
    /\ input = NoInput
    /\ last = NoCall
    /\ ext = <<>>
    /\ heap = NoHeap
    /\ threads = NoThreads

Next ==
    \/ CallEq
    \/ CallGetStacCatalog
    \/ CallGetGateway
    \/ CallNewGatewayCluster
    \/ CallGetDaskTaskRunner

Spec == Init /\ [][Next]_vars

-----------------------------------------------------------------------------
(* The cluster methods, each applied once to arguments drawn at the start *)

ClusterInputs ==
    [op : {"get_gateway"}, self : RecordIds, gateway_kwargs : GatewayKwargs]
    \cup [op : {"_get_cluster_options_dict"}, self : RecordIds, a : NamedArgs]
    \cup [op : {"new_gateway_cluster"}, self : RecordIds, a : NamedArgs,
          gateway_cluster_kwargs : GatewayKwargs]
    \cup [op : {"get_dask_task_runner"}, self : RecordIds, a : NamedArgs,
          cluster_kwargs : ClusterKwargs, adapt_kwargs : AdaptKwargs,
          client_kwargs : ClientKwargs]
    \cup [op : {"PlanetaryComputerGateway"}, hub_api_token : Optional(Tokens),
          gateway_kwargs : PcGatewayKwargs]
    \cup [op : {"PlanetaryComputerCluster"}, hub_api_token : Tokens,
          a : NamedArgs, gateway_cluster_kwargs : GatewayKwargs]
    \cup [op : {"PlanetaryComputerTaskRunner"}, credentials : RecordIds,
          cluster_kwargs : ClusterKwargs, adapt_kwargs : AdaptKwargs,
          client_kwargs : ClientKwargs]

\* the first record is any record, the second is PlanetaryComputerCredentials()
InitCluster ==
    /\ creds \in {c \in [RecordIds -> PlanetaryComputerCredentials] :
                    c["r2"] = [subscription_key |-> None, hub_api_token |-> None]}
    /\ activeKey = None
    /\ input \in ClusterInputs
    /\ last = NoCall
    /\ ext = <<>>
    /\ heap = NoHeap
    /\ threads = NoThreads

Pending(op) == input.op = op /\ last = NoCall

\* the drawn call is made: its record, library calls and key are kept
Made(out) ==
    /\ last' = CallRecord(input.op, input.self, input, out)
    /\ ext' = out.ext
    /\ activeKey' = out.key
    /\ UNCHANGED <<creds, input, heap, threads>>

DoGetGateway ==
    /\ Pending("get_gateway")
    /\ Made(get_gateway(creds[input.self], input.gateway_kwargs, activeKey))

DoGetClusterOptionsDict ==
    /\ Pending("_get_cluster_options_dict")
    /\ Made(Return([cls |-> "dict", v |-> get_cluster_options_dict(input.a)],
                   <<>>, activeKey))

DoNewGatewayCluster ==
    /\ Pending("new_gateway_cluster")
    /\ Made(new_gateway_cluster(creds[input.self], input.a,
                                input.gateway_cluster_kwargs, activeKey))

DoGetDaskTaskRunner ==
    /\ Pending("get_dask_task_runner")
    /\ Made(get_dask_task_runner(creds[input.self], input.a, input.cluster_kwargs,
                                 input.adapt_kwargs, input.client_kwargs,
                                 activeKey))

\* the drawn constructor call is made; the object under construction is new
Constructed(rec, out) ==
    /\ last' = [op |-> input.op, self |-> "new", rec |-> rec, args |-> input,
                exc |-> out.exc, msg |-> out.msg, ret |-> out.ret,
                arg |-> out.arg]
    /\ ext' = out.ext
    /\ activeKey' = out.key
    /\ UNCHANGED <<creds, input, heap, threads>>

DoPlanetaryComputerGateway ==
    /\ Pending("PlanetaryComputerGateway")
    /\ Constructed(NoArgs, PlanetaryComputerGateway(input.hub_api_token,
                                                    input.gateway_kwargs,
                                                    activeKey))

DoPlanetaryComputerCluster ==
    /\ Pending("PlanetaryComputerCluster")
    /\ Constructed(NoArgs, PlanetaryComputerCluster(input.hub_api_token, input.a,
                                                    input.gateway_cluster_kwargs,
                                                    activeKey))

DoPlanetaryComputerTaskRunner ==
    /\ Pending("PlanetaryComputerTaskRunner")
    /\ Constructed(creds[input.credentials],
                   PlanetaryComputerTaskRunner(creds[input.credentials],
                                               input.cluster_kwargs,
                                               input.adapt_kwargs,
                                               input.client_kwargs, activeKey))

NextCluster ==
    \/ DoGetGateway
    \/ DoGetClusterOptionsDict
    \/ DoNewGatewayCluster
    \/ DoGetDaskTaskRunner
    \/ DoPlanetaryComputerGateway
    \/ DoPlanetaryComputerCluster
    \/ DoPlanetaryComputerTaskRunner

SpecCluster == InitCluster /\ [][NextCluster]_vars

-----------------------------------------------------------------------------
(* Task runners built from one caller's dict, and their duplicates.  A dict *)
(* is an object: heap.dicts[id] is what it holds, the caller's dict being   *)
(* the first, and a task runner holds the id of its cluster_kwargs.         *)

CallerDict == 1

\* the attributes of a new task runner; DaskTaskRunner.__init__ keeps a copy
\* of cluster_kwargs, which is a new dict object
NewRunner(cls, credentials, kw, dicts, from) ==
    LET attrs == DaskTaskRunnerAttrs(kw) IN
    [cls |-> cls, credentials |-> credentials, from |-> from,
     cluster_kwargs |-> Len(dicts) + 1,
     adapt_kwargs |-> attrs.adapt_kwargs,
     client_kwargs |-> attrs.client_kwargs]

\* variant: the duplicate is built without the original's cluster_kwargs
duplicate_without_cluster_kwargs(self, dicts, key0) ==
    PlanetaryComputerTaskRunner(creds[self.credentials], None,
                                Some(self.adapt_kwargs),
                                Some(self.client_kwargs), key0)

\* duplicate(): the constructor is called with the attributes of self, the
\* dict self.cluster_kwargs itself being its cluster_kwargs argument
duplicate(self, dicts, key0) ==
    PlanetaryComputerTaskRunner(creds[self.credentials],
                                Some(dicts[self.cluster_kwargs]),
                                Some(self.adapt_kwargs),
                                Some(self.client_kwargs), key0)

\* the heap after a constructor call with outcome out whose cluster_kwargs
\* argument was the dict passed (0: None was passed): that dict is as the
\* call left it, and on success there is one more runner and one more dict
HeapAfter(out, passed, cls, credentials, from) ==
    LET dicts1 == IF passed = 0 \/ out.arg = None THEN heap.dicts
                  ELSE [heap.dicts EXCEPT ![passed] = Val(out.arg)]
    IN  IF out.exc # "none"
        THEN [heap EXCEPT !.dicts = dicts1]
        ELSE [dicts |-> Append(dicts1, DaskTaskRunnerAttrs(out.ret.kw).cluster_kwargs),
              runners |-> Append(heap.runners,
                                 NewRunner(cls, credentials, out.ret.kw, dicts1,
                                           from))]

\* what is kept of a call that builds a task runner
RunnerCallRecord(op, self, rec, passed, out) ==
    [op |-> op, self |-> self, rec |-> rec, args |-> [passed |-> passed],
     exc |-> out.exc, msg |-> out.msg, ret |-> out.ret, arg |-> out.arg]

Passed(d) == IF d = 0 THEN None ELSE Some(heap.dicts[d])

RunnerFromRecord ==
    \E r \in RecordIds, d \in {0, CallerDict} :
        LET out == get_dask_task_runner(creds[r], Defaults, Passed(d),
                                        input.adapt_kwargs, input.client_kwargs,
                                        activeKey)
        IN  /\ Len(heap.runners) < MaxRunners
            /\ heap' = HeapAfter(out, d, "prefect_dask.DaskTaskRunner", "none", 0)
            /\ last' = RunnerCallRecord("get_dask_task_runner", r, creds[r], d, out)
            /\ ext' = out.ext
            /\ activeKey' = out.key
            /\ UNCHANGED <<creds, input, threads>>

RunnerConstructed ==
    \E r \in RecordIds, d \in {0, CallerDict} :
        LET out == PlanetaryComputerTaskRunner(creds[r], Passed(d),
                                               input.adapt_kwargs,
                                               input.client_kwargs, activeKey)
        IN  /\ Len(heap.runners) < MaxRunners
            /\ heap' = HeapAfter(out, d, "PlanetaryComputerTaskRunner", r, 0)
            /\ last' = RunnerCallRecord("PlanetaryComputerTaskRunner", "new",
                                        creds[r], d, out)
            /\ ext' = out.ext
            /\ activeKey' = out.key
            /\ UNCHANGED <<creds, input, threads>>

RunnerDuplicated ==
    \E i \in 1..Len(heap.runners) :
        LET self == heap.runners[i]
            out == duplicate(self, heap.dicts, activeKey)
        IN  /\ Len(heap.runners) < MaxRunners
            /\ self.cls = "PlanetaryComputerTaskRunner"
            /\ heap' = HeapAfter(out, self.cluster_kwargs, self.cls,
                                 self.credentials, i)
            /\ last' = RunnerCallRecord("duplicate", "runner",
                                        creds[self.credentials],
                                        self.cluster_kwargs, out)
            /\ ext' = out.ext
            /\ activeKey' = out.key
            /\ UNCHANGED <<creds, input, threads>>

\* the caller holds one dict, kept in input as it was first passed; the first
\* record has or has not a token, the second is PlanetaryComputerCredentials()
InitRunners ==
    /\ creds \in {c \in [RecordIds -> PlanetaryComputerCredentials] :
                    /\ c["r1"].subscription_key = None
                    /\ c["r2"] = [subscription_key |-> None,
                                  hub_api_token |-> None]}
    /\ activeKey = None
    /\ input \in [op : {"runners"},
                  cluster_kwargs : Dicts(RunnerKeys, RunnerValue, MaxKwargs),
                  adapt_kwargs : AdaptKwargs, client_kwargs : ClientKwargs]
    /\ last = NoCall
    /\ ext = <<>>
    /\ heap = [dicts |-> <<input.cluster_kwargs>>, runners |-> <<>>]
    /\ threads = NoThreads

NextRunners ==
    \/ RunnerFromRecord
    \/ RunnerConstructed
    \/ RunnerDuplicated

SpecRunners == InitRunners /\ [][NextRunners]_vars

-----------------------------------------------------------------------------
(* get_stac_catalog called once by each of two threads.  The body is two    *)
(* library calls, set_subscription_key (when the record has a key) and then *)
(* Client.open, and other threads run between them.                         *)

ThreadIds == {"t1", "t2"}

\* variant: a lock is held from the test of the key until Client.open returns
MayEnterLocked(t) == \A u \in ThreadIds \ {t} : threads[u].pc # "installed"

\* whether thread t may start the body now: the body takes no lock
MayEnter(t) == TRUE

\* lines 115-118: the record's key becomes the process-wide key, if it has one
ThreadInstalls(t) ==
    LET self == creds[threads[t].self]
        install == SecretTruth(self.subscription_key)
    IN  /\ threads[t].pc = "call"
        /\ MayEnter(t)
        /\ activeKey' = IF install THEN self.subscription_key ELSE activeKey
        /\ ext' = IF install
                  THEN Append(ext, LibCall("planetary_computer.set_subscription_key",
                                           [key |-> Val(self.subscription_key)],
                                           activeKey))
                  ELSE ext
        /\ threads' = [threads EXCEPT ![t].pc = "installed"]
        /\ UNCHANGED <<creds, input, last, heap>>

\* lines 120-124: the client is opened, under the key that is active now
ThreadOpens(t) ==
    LET kw == [url |-> CATALOG_URL,
               modifier |-> Modifier(threads[t].sign_inplace)]
    IN  /\ threads[t].pc = "installed"
        /\ ext' = Append(ext, LibCall("pystac_client.Client.open", kw, activeKey))
        /\ threads' = [threads EXCEPT ![t].pc = "done",
                                      ![t].opened_under = activeKey]
        /\ UNCHANGED <<creds, activeKey, input, last, heap>>

InitThreads ==
    /\ creds \in [RecordIds -> PlanetaryComputerCredentials]
    /\ activeKey = None
    /\ input = NoInput
    /\ last = NoCall
    /\ ext = <<>>
    /\ heap = NoHeap
    /\ threads \in [ThreadIds -> [pc : {"call"}, self : RecordIds,
                                  sign_inplace : BOOLEAN,
                                  opened_under : {None}]]

NextThreads ==
    \/ \E t \in ThreadIds : ThreadInstalls(t)
    \/ \E t \in ThreadIds : ThreadOpens(t)

SpecThreads == InitThreads /\ [][NextThreads]_vars

-----------------------------------------------------------------------------
(* Properties *)

\* the calls of fn among the library calls of the last method call
CallsOf(fn) == {i \in 1..Len(ext) : ext[i].fn = fn}

\* a dict without the entries named in keys
Without(d, keys) == [k \in (DOMAIN d) \ keys |-> d[k]]

FixedKeys == {"address", "proxy_address", "auth"}

\* C1: get_gateway on a record whose hub_api_token is None raises the
\* ValueError "JupyterHub API Token hasn't been provided." whatever the
\* gateway_kwargs are, having made no library call (no Gateway is built), and
\* the record keeps its two fields.
C1_GetGatewayMissingToken ==
    (last.op = "get_gateway" /\ last.rec.hub_api_token = None) =>
        /\ last.exc = "ValueError"
        /\ last.msg = TokenMissingMsg
        /\ ext = <<>>
        /\ creds[last.self] = last.rec

\* C1 happens: a token-less record was asked for a gateway with keyword
\* arguments, one of them address, and ValueError came out
C1_Witness ==
    /\ last.op = "get_gateway"
    /\ last.rec.hub_api_token = None
    /\ "address" \in DOMAIN last.args.gateway_kwargs
    /\ last.exc = "ValueError"

\* C2: get_gateway, new_gateway_cluster and get_dask_task_runner, called on a
\* record whose hub_api_token is None, all raise the ValueError that
\* get_gateway raises, having made no library call.
C2_GatewayMethodsRejectMissingToken ==
    (/\ last.op \in {"get_gateway", "new_gateway_cluster", "get_dask_task_runner"}
     /\ last.rec.hub_api_token = None) =>
        /\ last.exc = "ValueError"
        /\ last.msg = TokenMissingMsg
        /\ ext = <<>>

\* what the claim says r == other is
EqualsExpected(rec, other) ==
    /\ IsCredentials(other)
    /\ rec.subscription_key = creds[other.v].subscription_key
    /\ rec.hub_api_token = creds[other.v].hub_api_token

\* C3: r == other raises nothing and is True exactly when other is a
\* credentials record with the same subscription_key and the same
\* hub_api_token (None equal to None only), False for everything else.
C3_EqualsIsTotal ==
    last.op = "__eq__" =>
        /\ last.exc = "none"
        /\ last.ret = Bool(EqualsExpected(last.rec, last.args.other))

\* new_gateway_cluster(worker_cores=2, **extras): the other named parameters
\* take their defaults
OnlyWorkerCores2 == [Defaults EXCEPT !.worker_cores = Some(2)]

\* the options mapping a GatewayCluster call carries besides the three fixed
\* keywords
OptionsPassed == Without(ext[1].kw, FixedKeys)

ClusterBuiltWithOnlyWorkerCores2 ==
    /\ last.op = "new_gateway_cluster"
    /\ last.args.a = OnlyWorkerCores2
    /\ last.exc = "none"

\* C4 as stated: new_gateway_cluster(worker_cores=2, **extras) passes exactly
\* worker_cores=2 plus the extras to the gateway cluster.
C4_OnlyWorkerCoresInjectsNothing ==
    ClusterBuiltWithOnlyWorkerCores2 =>
        OptionsPassed =
            Update(last.args.gateway_cluster_kwargs, [worker_cores |-> 2])

\* C4 amended: new_gateway_cluster(worker_cores=2, **extras) passes exactly
\* worker_cores=2, the default gpu=False and the extras to the gateway
\* cluster: nothing is injected for worker_memory, image or environment.
C4_OnlyWorkerCoresPlusGpuDefault ==
    ClusterBuiltWithOnlyWorkerCores2 =>
        /\ Len(ext) = 1
        /\ ext[1].fn = "dask_gateway.GatewayCluster"
        /\ OptionsPassed =
              Update(last.args.gateway_cluster_kwargs,
                     [worker_cores |-> 2, gpu |-> FALSE])

\* C4 happens: such a call, with an extra option, built a cluster
C4_Witness ==
    /\ ClusterBuiltWithOnlyWorkerCores2
    /\ last.args.gateway_cluster_kwargs # EmptyDict

\* C5: the dict _get_cluster_options_dict returns has key k, for each of the
\* five option names, exactly when the argument k is not None, maps it to the
\* argument's value, and has no other key.
C5_OptionsDictIsTheNonNoneArguments ==
    last.op = "_get_cluster_options_dict" =>
        LET d == last.ret.v
            a == last.args.a
        IN  /\ DOMAIN d \subseteq OptionKeys
            /\ \A k \in OptionKeys :
                  /\ k \in DOMAIN d <=> a[k] # None
                  /\ k \in DOMAIN d => d[k] = Val(a[k])

\* C5 happens: gpu=False, worker_cores=0 and environment={} were passed, image
\* was None, and gpu came out as False
C5_Witness ==
    /\ last.op = "_get_cluster_options_dict"
    /\ last.args.a.gpu = Some(FALSE)
    /\ last.args.a.worker_cores = Some(0)
    /\ last.args.a.environment = Some(EmptyDict)
    /\ last.args.a.image = None
    /\ DOMAIN last.ret.v = {"gpu", "worker_cores", "environment"}
    /\ last.ret.v["gpu"] = FALSE

\* the arguments get_stac_catalog itself passes to Client.open
CatalogFixedKeys == {"url", "modifier"}

\* the last call was get_stac_catalog with options that repeat neither
CatalogCalled ==
    /\ last.op = "get_stac_catalog"
    /\ DOMAIN last.args.pystac_kwargs \cap CatalogFixedKeys = {}

Opens == CallsOf("pystac_client.Client.open")
Installs == CallsOf("planetary_computer.set_subscription_key")

\* C6: when get_stac_catalog runs on a record whose subscription_key is not
\* None, set_subscription_key is called with the record's plaintext key before
\* Client.open, and the process-wide key is the record's key when Client.open
\* is called.
C6_KeyInstalledBeforeOpen ==
    (CatalogCalled /\ last.rec.subscription_key # None) =>
        /\ Opens # {}
        /\ \A i \in Opens :
              /\ ext[i].key = last.rec.subscription_key
              /\ \E j \in Installs :
                    j < i /\ ext[j].kw = [key |-> Val(last.rec.subscription_key)]

\* C7: get_stac_catalog on a record whose subscription_key is None, whatever
\* calls came before, raises nothing and opens the client with no
\* subscription key active.
C7_AbsentKeyOpensUnauthenticated ==
    (CatalogCalled /\ last.rec.subscription_key = None) =>
        /\ last.exc = "none"
        /\ Opens # {}
        /\ \A i \in Opens : ext[i].key = None

\* the one Client.open call of the last get_stac_catalog is made on the fixed
\* URL, with the modifier the flag asks for and the caller's options as given
OpenedAsAsked ==
    /\ last.exc = "none"
    /\ Cardinality(Opens) = 1
    /\ \A i \in Opens :
          /\ ext[i].kw["url"] = CATALOG_URL
          /\ ext[i].kw["modifier"] = (IF last.args.sign_inplace
                                      THEN SignInplace ELSE None)
          /\ Without(ext[i].kw, CatalogFixedKeys) = last.args.pystac_kwargs
    /\ last.ret.url = CATALOG_URL
    /\ last.ret.modifier = (IF last.args.sign_inplace THEN SignInplace ELSE None)

\* C8 as stated: for every record, flag and options mapping, get_stac_catalog
\* opens the client at CATALOG_URL, with sign_inplace as modifier exactly when
\* the flag is true, and with the caller's options unchanged.
C8_OpenedAsAskedForEveryOptions ==
    last.op = "get_stac_catalog" => OpenedAsAsked

\* C8 amended: that holds for every options mapping that names neither url nor
\* modifier; one that does makes the call raise TypeError with no client opened.
C8_OpenedAsAskedUnlessArgumentRepeated ==
    last.op = "get_stac_catalog" =>
        IF DOMAIN last.args.pystac_kwargs \cap CatalogFixedKeys # {}
        THEN last.exc = "TypeError" /\ Opens = {}
        ELSE OpenedAsAsked

\* C8 happens: a client was opened with sign_inplace false and a caller option
C8_Witness ==
    /\ CatalogCalled
    /\ ~last.args.sign_inplace
    /\ last.args.pystac_kwargs # EmptyDict
    /\ last.exc = "none"
    /\ Opens # {}

\* get_stac_catalog() on a record with a token and no subscription key
CatalogCalledBare ==
    /\ last.op = "get_stac_catalog"
    /\ last.rec.hub_api_token # None
    /\ last.rec.subscription_key = None
    /\ last.args.sign_inplace = SignInplaceDefault
    /\ last.args.pystac_kwargs = EmptyDict

\* C9 as stated: get_stac_catalog() on a record with hub_api_token and without
\* subscription_key returns a client on CATALOG_URL with no signing callback.
C9_BareCatalogHasNoModifier ==
    CatalogCalledBare =>
        /\ last.exc = "none"
        /\ last.ret.url = CATALOG_URL
        /\ last.ret.modifier = None

\* C9 amended: it returns a client on CATALOG_URL with the sign_inplace
\* callback installed (sign_inplace defaults to True), and it installs no
\* subscription key.
C9_BareCatalogSignsByDefault ==
    CatalogCalledBare =>
        /\ last.exc = "none"
        /\ last.ret.url = CATALOG_URL
        /\ last.ret.modifier = SignInplace
        /\ Installs = {}
        /\ \A i \in Opens :
              ext[i].kw = [url |-> CATALOG_URL, modifier |-> SignInplace]

\* C9 happens: such a call returned a client
C9_Witness ==
    /\ CatalogCalledBare
    /\ last.exc = "none"
    /\ last.ret.cls = "pystac_client.Client"

\* C10: get_gateway on a record whose hub_api_token is present, whatever its
\* subscription_key, and with gateway_kwargs that do not repeat address,
\* proxy_address or auth, raises nothing, builds one Gateway and returns it
\* with address GATEWAY_ADDRESS, proxy address GATEWAY_PROXY_ADDRESS and
\* JupyterHubAuth on the record's plaintext token.
C10_GatewayBoundToFixedAddresses ==
    (/\ last.op = "get_gateway"
     /\ last.rec.hub_api_token # None
     /\ DOMAIN last.args.gateway_kwargs \cap FixedKeys = {}) =>
        /\ last.exc = "none"
        /\ last.ret.cls = "dask_gateway.Gateway"
        /\ last.ret.address = GATEWAY_ADDRESS
        /\ last.ret.proxy_address = GATEWAY_PROXY_ADDRESS
        /\ last.ret.auth = JupyterHubAuth(Val(last.rec.hub_api_token))
        /\ Len(ext) = 1
        /\ ext[1].fn = "dask_gateway.Gateway"
        /\ Without(ext[1].kw, FixedKeys) = last.args.gateway_kwargs

\* C10 happens: a record with both secrets returned a gateway
C10_Witness ==
    /\ last.op = "get_gateway"
    /\ last.rec.hub_api_token = Some("t2")
    /\ last.rec.subscription_key # None
    /\ last.exc = "none"
    /\ last.ret.address = GATEWAY_ADDRESS

\* C11: PlanetaryComputerGateway called with an address, or with a
\* proxy_address, whatever the value supplied, raises ValueError and does not
\* reach Gateway.__init__; called with a token and neither of the two (nor
\* auth) it is built on the fixed address and proxy address.
C11_SuppliedAddressRaisesValueError ==
    last.op = "PlanetaryComputerGateway" =>
        LET kw == last.args.gateway_kwargs IN
        /\ (DOMAIN kw) \cap {"address", "proxy_address"} # {} =>
                last.exc = "ValueError" /\ ext = <<>>
        /\ (/\ (DOMAIN kw) \cap FixedKeys = {}
            /\ last.args.hub_api_token # None) =>
                /\ last.exc = "none"
                /\ last.ret.address = GATEWAY_ADDRESS
                /\ last.ret.proxy_address = GATEWAY_PROXY_ADDRESS

\* the cluster_kwargs of the task runner the last call returned
RunnerClusterKwargs == DaskTaskRunnerAttrs(last.ret.kw).cluster_kwargs

RunnerBuilt ==
    /\ last.op \in {"get_dask_task_runner", "PlanetaryComputerTaskRunner"}
    /\ last.exc = "none"

\* C12: whatever cluster_kwargs the caller supplies, address, proxy_address
\* and auth among its entries or not, the task runner that
\* get_dask_task_runner returns and the one PlanetaryComputerTaskRunner
\* builds have cluster_kwargs with the fixed gateway address, the fixed proxy
\* address and an auth made of the record's token.
C12_RunnerBoundToFixedGateway ==
    RunnerBuilt =>
        /\ RunnerClusterKwargs["address"] = GATEWAY_ADDRESS
        /\ RunnerClusterKwargs["proxy_address"] = GATEWAY_PROXY_ADDRESS
        /\ RunnerClusterKwargs["auth"] =
                JupyterHubAuth(Val(last.rec.hub_api_token))

\* C12 happens: a task runner was built from a caller's cluster_kwargs that
\* names another address and another auth
C12_Witness ==
    /\ RunnerBuilt
    /\ last.args.cluster_kwargs # None
    /\ {"address", "auth"} \subseteq DOMAIN Val(last.args.cluster_kwargs)
    /\ RunnerClusterKwargs["address"] = GATEWAY_ADDRESS

\* C16: PlanetaryComputerTaskRunner built from a record whose hub_api_token
\* is None raises the ValueError "JupyterHub API Token hasn't been provided."
\* and reaches no DaskTaskRunner.__init__.
C16_RunnerRejectsMissingToken ==
    (/\ last.op = "PlanetaryComputerTaskRunner"
     /\ last.rec.hub_api_token = None) =>
        /\ last.exc = "ValueError"
        /\ last.msg = TokenMissingMsg
        /\ ext = <<>>

\* C17: get_dask_task_runner called with a cluster_kwargs dict and the named
\* options left at their defaults returns a task runner in whose
\* cluster_kwargs every entry of that dict other than address, proxy_address
\* and auth, a gpu entry included, has the caller's value.
C17_CallerEntriesReachRunner ==
    (/\ last.op = "get_dask_task_runner"
     /\ last.exc = "none"
     /\ last.args.a = Defaults
     /\ last.args.cluster_kwargs # None) =>
        LET ck == Val(last.args.cluster_kwargs) IN
        \A k \in (DOMAIN ck) \ FixedKeys :
            /\ k \in DOMAIN RunnerClusterKwargs
            /\ RunnerClusterKwargs[k] = ck[k]

\* the keyword arguments new_gateway_cluster passes to GatewayCluster on a
\* record holding the token, or the exception it raises before the call
ViaRecord(token, a, kwargs) ==
    {<<out.exc, out.ext>> :
        out \in {new_gateway_cluster([subscription_key |-> key,
                                      hub_api_token |-> Some(token)],
                                     a, kwargs, activeKey) :
                    key \in Optional(Keys)}}

\* C19: for every token and every worker_cores, worker_memory, image, gpu,
\* environment and extra keywords, PlanetaryComputerCluster(token, ...) makes
\* one call of the GatewayCluster constructor with the keyword arguments
\* new_gateway_cluster(...) passes on a record holding that token, or fails
\* as it fails.
C19_ClusterClassMatchesRecordMethod ==
    last.op = "PlanetaryComputerCluster" =>
        LET viaRecord == ViaRecord(last.args.hub_api_token, last.args.a,
                                   last.args.gateway_cluster_kwargs)
        IN  \A v \in viaRecord :
                /\ v[1] = last.exc
                /\ Len(v[2]) = Len(ext)
                /\ \A i \in 1..Len(ext) : v[2][i].kw = ext[i].kw

\* C19 happens: a cluster was built with a falsy option (gpu=False or
\* worker_cores=0), an environment and an extra keyword
C19_Witness ==
    /\ last.op = "PlanetaryComputerCluster"
    /\ last.exc = "none"
    /\ last.args.a.worker_cores = Some(0)
    /\ last.args.a.gpu = Some(FALSE)
    /\ last.args.a.environment # None
    /\ "asynchronous" \in DOMAIN last.args.gateway_cluster_kwargs
    /\ Len(ext) = 1
    /\ ext[1].kw["gpu"] = FALSE

\* C14: whatever sequence of __eq__, get_stac_catalog, get_gateway,
\* new_gateway_cluster and get_dask_task_runner calls is made, returning or
\* raising, every step leaves the subscription_key and the hub_api_token of
\* every record as they were, so they stay the values of the construction.
C14_FieldsKeptByEveryCall == [][creds' = creds]_vars

\* C14 happens: after a catalog was opened with a key, a call on a record
\* without a token failed, and the record still has the fields it had
C14_Witness ==
    /\ activeKey # None
    /\ last.op \in {"new_gateway_cluster", "get_dask_task_runner"}
    /\ last.exc = "AttributeError"
    /\ creds[last.self] = last.rec
    /\ last.rec.subscription_key # None

\* the dict object a task runner holds as cluster_kwargs
ClusterKwargsOf(i) == heap.dicts[heap.runners[i].cluster_kwargs]

\* C13: duplicate() of a PlanetaryComputerTaskRunner gives another task
\* runner object whose credentials, cluster_kwargs, adapt_kwargs and
\* client_kwargs equal those of the runner it was made from, which holds as
\* well for the duplicate of a duplicate.
C13_DuplicateHasTheOptionsOfItsOriginal ==
    \A j \in 1..Len(heap.runners) :
        LET i == heap.runners[j].from IN
        i # 0 =>
            /\ j # i
            /\ heap.runners[j].cls = heap.runners[i].cls
            /\ heap.runners[j].credentials = heap.runners[i].credentials
            /\ ClusterKwargsOf(j) = ClusterKwargsOf(i)
            /\ heap.runners[j].adapt_kwargs = heap.runners[i].adapt_kwargs
            /\ heap.runners[j].client_kwargs = heap.runners[i].client_kwargs

\* C13 happens: a runner built from a caller's dict with an entry of its own
\* was duplicated, and the duplicate was duplicated
C13_Witness ==
    /\ Len(heap.runners) = 3
    /\ heap.runners[1].from = 0
    /\ heap.runners[2].from = 1
    /\ heap.runners[3].from = 2
    /\ "image" \in DOMAIN ClusterKwargsOf(3)
    /\ ClusterKwargsOf(3) = ClusterKwargsOf(1)
    /\ heap.runners[1].adapt_kwargs # EmptyDict

\* C18: get_dask_task_runner and the PlanetaryComputerTaskRunner constructor
\* leave the caller's cluster_kwargs dict with the keys and values it was
\* passed with, and no two task runners, a runner and its duplicate
\* included, hold the same dict object as cluster_kwargs, nor the caller's.
C18_CallerDictLeftAlone ==
    /\ heap.dicts[CallerDict] = input.cluster_kwargs
    /\ \A i, j \in 1..Len(heap.runners) :
            /\ heap.runners[i].cluster_kwargs # CallerDict
            /\ i # j => heap.runners[i].cluster_kwargs # heap.runners[j].cluster_kwargs

KeyOfThread(t) == creds[threads[t].self].subscription_key

\* C15: with get_stac_catalog running on two threads, installing the key
\* and opening the client are not mutually exclusive: while one thread has
\* installed its record's key and has not opened its client yet, the other
\* thread can install the key of its record.
C15_InstallNotExcludedByPendingOpen ==
    \A t, u \in ThreadIds :
        (/\ t # u
         /\ threads[t].pc = "installed"
         /\ threads[u].pc = "call") => ENABLED ThreadInstalls(u)

\* C15 happens: two records with different keys, and the client of one was
\* opened while the process-wide key was the key of the other
C15_Witness ==
    \E t, u \in ThreadIds :
        /\ t # u
        /\ SecretTruth(KeyOfThread(t))
        /\ SecretTruth(KeyOfThread(u))
        /\ KeyOfThread(t) # KeyOfThread(u)
        /\ threads[t].pc = "done"
        /\ threads[t].opened_under = KeyOfThread(u)

=============================================================================
